---- MODULE Spec2Model ----
(***************************************************************************)
(* Loreweaver::weave (src/src/lib.rs): the per-turn context-window         *)
(* budgeting and compaction algorithm, with the storage backend            *)
(* (TapestryChestHandler), the OpenAI client and the tokenizer as ports.   *)
(* Each await point of weave is one action, so that turns of several       *)
(* tasks interleave exactly where the async code can be suspended.         *)
(***************************************************************************)
EXTENDS Integers, Sequences, FiniteSets, TLC

(* ------------------------------ bounds -------------------------------- *)

\* number of weave calls started in one behaviour
MaxTurns == 2

\* concurrent tasks calling weave
Procs == {1, 2}

\* tapestry ids (base keys)
Ids == {"A", "B"}

(* ------------------------- program constants -------------------------- *)

\* Tokens = u16: arithmetic is modulo 2^16
TokensModulus == 65536

\* Models::GPT3.max_context_tokens(), the DefaultModel
GPT3_max_context_tokens == 4096
\* Models::GPT4.max_context_tokens()
GPT4_max_context_tokens == 8192

\* Config::SUMMARY_PERCENTAGE = 0.1 as the fraction 1/10
SUMMARY_PERCENTAGE_num == 1
SUMMARY_PERCENTAGE_den == 10

\* TOKEN_WORD_RATIO = 0.75 as the fraction 3/4
TOKEN_WORD_RATIO_num == 3
TOKEN_WORD_RATIO_den == 4

SYSTEM_ROLE == "system"
ASSISTANT_ROLE == "assistant"
USER_ROLE == "user"

(* ------------------------------- inputs ------------------------------- *)

\* A text is its identity and the number of tokens p50k_base encodes it to.
Text(t, n) == [txt |-> t, len |-> n]

NoText == Text("", 0)

\* system instructions
Systems == {Text("be brief", 3)}

\* user messages: "hello" is 2 tokens; one as long as a small reservation;
\* one of 65535 tokens, the largest count a u16 holds
UserMsgs == {Text("hello", 2), Text("tell me more", 3), Text("long paste", 65535)}

\* texts the provider may return as a summary
Summaries == {Text("", 0), Text("recap", 1)}

\* texts the provider may return as a reply
Replies == {Text("hi", 1)}

\* Option<T> is a sequence of length at most one
None == <<>>
Some(v) == <<v>>

\* override_max_context_tokens: absent, a small window (reservation 3),
\* and one above the model's maximum
Overrides == {None, Some(30), Some(4097)}

\* account_id: each task calls weave for one caller; the first supplies an
\* account id, the second none
Accounts(p) == IF p = 1 THEN {Some("bob")} ELSE {None}

(* ------------------------------ helpers ------------------------------- *)

\* Token::count_tokens: tokens.len() as Tokens
count_tokens(text) == text.len % TokensModulus

\* the value of a u16 operation whose mathematical result is x, when the
\* build wraps
Wrap(x) == x % TokensModulus

\* whether the mathematical result x leaves the range of u16
Overflows(x) == x < 0 \/ x >= TokensModulus

\* Models
Models == {"GPT3", "GPT4"}

\* Models::max_context_tokens
max_context_tokens_of(model) ==
    IF model = "GPT3" THEN GPT3_max_context_tokens
    ELSE GPT4_max_context_tokens

\* DefaultModel::get
DefaultModel == "GPT3"

\* Models::max_context_tokens for T::Model::get()
max_context_tokens == max_context_tokens_of(DefaultModel)

\* tokens_available rounding the product up instead of truncating it
tokens_available_RoundsUp(model, custom_max_tokens) ==
    LET window == IF custom_max_tokens = None THEN max_context_tokens_of(model)
                  ELSE custom_max_tokens[1]
    IN (window * SUMMARY_PERCENTAGE_num + SUMMARY_PERCENTAGE_den - 1)
          \div SUMMARY_PERCENTAGE_den

\* Loreweaver::tokens_available: (window as f32 * 0.1) as Tokens.
\* For every u16 window the f32 product truncates to floor(window / 10).
tokens_available(model, custom_max_tokens) ==
    LET window == IF custom_max_tokens = None THEN max_context_tokens_of(model)
                  ELSE custom_max_tokens[1]
    IN (window * SUMMARY_PERCENTAGE_num) \div SUMMARY_PERCENTAGE_den

\* the call of line 324: tokens_available(T::Model::get(), override)
tokens_available_of(custom_max_tokens) ==
    tokens_available(DefaultModel, custom_max_tokens)

\* ContextMessage (the timestamp, wall-clock time that weave never reads,
\* is left out)
ContextMessage(role, account, content) ==
    [role |-> role, account_id |-> account, content |-> content]

\* TapestryFragment
TapestryFragment(tokens, messages) ==
    [context_tokens |-> tokens, context_messages |-> messages]

\* TapestryFragment::default()
DefaultFragment == TapestryFragment(0, <<>>)

\* ChatCompletionRequestMessage: fmt is the format string the content was
\* built with, content the text put into it, words4 the number put into a
\* directive, in quarters of a word (tokens as f32 * 0.75 = 3 * tokens / 4)
RequestMessage(role, name, fmt, content, words4) ==
    [role |-> role, name |-> name, fmt |-> fmt, content |-> content,
     words4 |-> words4]

PlainFmt == "{}"
SummaryFmt == "\n\"\"\"\n {}"
GenSummaryFmt ==
    "Generate a summary of the entire adventure so far. Respond with {} words or less"
RespondFmt == "Respond with {} words or less"

\* the word count rounded down to a whole number of words
Words4_Floored(tokens) ==
    ((tokens * TOKEN_WORD_RATIO_num) \div TOKEN_WORD_RATIO_den)
       * TOKEN_WORD_RATIO_den

\* tokens as f32 * TOKEN_WORD_RATIO, in quarters of a word
Words4(tokens) == tokens * TOKEN_WORD_RATIO_num

\* impl From<String> for WrapperRole: the three roles, or a panic
RoleKnown(role) == role \in {SYSTEM_ROLE, ASSISTANT_ROLE, USER_ROLE}

\* the name given to a stored message in the request
NameOf(m) == IF m.role = SYSTEM_ROLE THEN "" ELSE m.account_id

\* Loreweaver::build_messages on one message
build_message(role, content, fmt) == RequestMessage(role, "", fmt, content, 0)

\* the request messages of the stored messages, in order
RequestOfStored(messages) ==
    [i \in 1..Len(messages) |->
        RequestMessage(messages[i].role, NameOf(messages[i]), PlainFmt,
                       messages[i].content, 0)]

\* sum of count_tokens over the messages of a fragment
RECURSIVE SumTokens(_)
SumTokens(messages) ==
    IF messages = <<>> THEN 0
    ELSE count_tokens(Head(messages).content) + SumTokens(Tail(messages))

\* Result<String>: the kind of outcome and, for Ok, the text
NoResult == [kind |-> "none", text |-> NoText]
Ok(text) == [kind |-> "Ok", text |-> text]
Err(kind) == [kind |-> kind, text |-> NoText]
Panic == [kind |-> "panic", text |-> NoText]
\* panic!("Bad OpenAI role") of the role conversion
PanicBadRole == [kind |-> "panic", text |-> Text("Bad OpenAI role", 0)]

\* one invocation of a port: its arguments and what it returned
FetchCall(id, outcome) ==
    [op |-> "get_tapestry_fragment", id |-> id, messages |-> <<>>,
     max_tokens |-> 0, fragment |-> DefaultFragment, new |-> FALSE,
     outcome |-> outcome]
PromptCall(id, messages, max, outcome) ==
    [op |-> "prompt", id |-> id, messages |-> messages,
     max_tokens |-> max, fragment |-> DefaultFragment, new |-> FALSE,
     outcome |-> outcome]
SaveCall(id, fragment, new, outcome) ==
    [op |-> "save_tapestry_fragment", id |-> id, messages |-> <<>>,
     max_tokens |-> 0, fragment |-> fragment, new |-> new,
     outcome |-> outcome]

(* ------------------------------- state -------------------------------- *)

VARIABLES
    overflow_checks,  \* build profile: TRUE panics on u16 overflow, FALSE wraps
    chest,            \* TapestryChest: per tapestry id, its fragment instances
    version,          \* per tapestry id, the number of saves the chest applied
    turns,            \* weave calls started so far
    task              \* per task, the frame of its weave call

vars == <<overflow_checks, chest, version, turns, task>>

\* the frame of a task that is not inside weave
IdleFrame ==
    [pc |-> "idle",
     tapestry_id |-> "",
     system |-> NoText,
     override_max_context_tokens |-> None,
     msg |-> NoText,
     account_id |-> None,
     loaded |-> DefaultFragment,       \* story_part as fetched (line 319)
     seen |-> 0,                       \* chest version the fetch read
     tokens_available |-> 0,
     summarized |-> FALSE,
     tokens_left |-> 0,
     summary_response_content |-> NoText,   \* line 375
     story_part |-> DefaultFragment,   \* story_part of line 354
     request_messages |-> <<>>,
     max_tokens |-> 0,
     response_content |-> NoText,
     result |-> NoResult,
     calls |-> <<>>]                   \* port invocations of this call, in order

Init ==
    /\ overflow_checks \in BOOLEAN
    /\ chest = [id \in Ids |-> <<>>]
    /\ version = [id \in Ids |-> 0]
    /\ turns = 0
    /\ task = [p \in Procs |-> IdleFrame]

(* --------------------------- storage port ----------------------------- *)

\* TapestryChestHandler::get_tapestry_fragment(id, None): the latest
\* instance, or nothing
get_tapestry_fragment(id) ==
    IF chest[id] = <<>> THEN None ELSE Some(chest[id][Len(chest[id])])

\* TapestryChestHandler::save_tapestry_fragment(id, fragment, increment):
\* a new instance, or the current instance replaced
save_tapestry_fragment(id, fragment, increment) ==
    IF increment \/ chest[id] = <<>>
    THEN [chest EXCEPT ![id] = Append(@, fragment)]
    ELSE [chest EXCEPT ![id] = [@ EXCEPT ![Len(@)] = fragment]]

(* ------------------------- steps of weave ----------------------------- *)

\* weave returns (or unwinds) with res
Fail(f, res) == [f EXCEPT !.pc = "done", !.result = res]

\* lines 299-316: the override check and the system request message
ValidateOverride(f) ==
    IF /\ f.override_max_context_tokens # None
       /\ f.override_max_context_tokens[1] > max_context_tokens
    THEN Fail(f, Err("BadOpenAIRole"))
    ELSE [f EXCEPT !.pc = "get_tapestry_fragment"]

system_req_msg(f) == build_message(SYSTEM_ROLE, f.system, PlainFmt)

\* account_id.unwrap_or("")
AccountName(f) == IF f.account_id = None THEN "" ELSE f.account_id[1]

\* lines 413-440: the response budget and the final request
BeforeGenerate(f) ==
    LET d1 == f.tokens_available - f.story_part.context_tokens
        d2 == Wrap(d1) - count_tokens(f.msg)
    IN IF overflow_checks /\ (Overflows(d1) \/ Overflows(d2))
       THEN Fail(f, Panic)
       ELSE [f EXCEPT
               !.pc = "prompt_response",
               !.max_tokens = Wrap(d2),
               !.request_messages = @ \o
                   <<RequestMessage(USER_ROLE, AccountName(f), PlainFmt, f.msg, 0),
                     RequestMessage(SYSTEM_ROLE, "", RespondFmt, NoText,
                                    Words4(Wrap(d2)))>>]

\* NeedsSummary comparing with < : a sum equal to the reservation does not
\* compact
NeedsSummary_Strict(f) ==
    f.tokens_available < Wrap(f.loaded.context_tokens + count_tokens(f.msg))

\* lines 354-370: the compaction decision on the wrapped sum
NeedsSummary(f) ==
    f.tokens_available <= Wrap(f.loaded.context_tokens + count_tokens(f.msg))

\* lines 323-411 after a successful fetch, up to the next await
AfterFetch(f0) ==
    LET f == [f0 EXCEPT
                !.tokens_available =
                    tokens_available_of(f0.override_max_context_tokens)]
        stored == f.loaded.context_messages
        base == <<system_req_msg(f)>> \o RequestOfStored(stored)
        sum == f.loaded.context_tokens + count_tokens(f.msg)
        left == f.tokens_available - f.loaded.context_tokens
    IN IF \E i \in 1..Len(stored) : ~RoleKnown(stored[i].role)
       THEN Fail(f, PanicBadRole)
       ELSE IF overflow_checks /\ Overflows(sum)
       THEN Fail(f, Panic)
       ELSE IF NeedsSummary(f)
       THEN IF overflow_checks /\ Overflows(left)
            THEN Fail(f, Panic)
            ELSE [f EXCEPT
                    !.pc = "prompt_summary",
                    !.tokens_left = Wrap(left),
                    !.request_messages = base \o
                        <<RequestMessage(SYSTEM_ROLE, "", GenSummaryFmt, NoText,
                                         Words4(Wrap(left)))>>]
       ELSE BeforeGenerate([f EXCEPT
                              !.summarized = FALSE,
                              !.story_part = f.loaded,
                              !.request_messages = base])

\* AfterSummary counting both messages of the new fragment in its total
AfterSummary_CountsBothMessages(f, summary_response_content) ==
    BeforeGenerate([f EXCEPT
        !.summarized = TRUE,
        !.summary_response_content = summary_response_content,
        !.story_part =
            TapestryFragment(
                count_tokens(f.system) + count_tokens(summary_response_content),
                <<ContextMessage(SYSTEM_ROLE, "", f.system),
                  ContextMessage(SYSTEM_ROLE, "", summary_response_content)>>),
        !.request_messages =
            <<system_req_msg(f),
              build_message(SYSTEM_ROLE, summary_response_content, SummaryFmt)>>])

\* AfterSummary sending the system instruction and then both messages of
\* the new fragment as they are stored
AfterSummary_ResendsFragment(f, summary_response_content) ==
    LET fragment ==
            TapestryFragment(count_tokens(summary_response_content),
                <<ContextMessage(SYSTEM_ROLE, "", f.system),
                  ContextMessage(SYSTEM_ROLE, "", summary_response_content)>>)
    IN BeforeGenerate([f EXCEPT
          !.summarized = TRUE,
          !.summary_response_content = summary_response_content,
          !.story_part = fragment,
          !.request_messages =
              <<system_req_msg(f)>> \o RequestOfStored(fragment.context_messages)])

\* lines 375-408: the fragment and the request after a summary
AfterSummary(f, summary_response_content) ==
    BeforeGenerate([f EXCEPT
        !.summarized = TRUE,
        !.summary_response_content = summary_response_content,
        !.story_part =
            TapestryFragment(count_tokens(summary_response_content),
                <<ContextMessage(SYSTEM_ROLE, "", f.system),
                  ContextMessage(SYSTEM_ROLE, "", summary_response_content)>>),
        !.request_messages =
            <<system_req_msg(f),
              build_message(SYSTEM_ROLE, summary_response_content, SummaryFmt)>>])

\* AfterResponse with the two pushes in the other order
AfterResponse_ReplyFirst(f, content) ==
    [f EXCEPT
        !.pc = "save_tapestry_fragment",
        !.response_content = content,
        !.story_part.context_messages = @ \o
            <<ContextMessage(ASSISTANT_ROLE, AccountName(f), content),
              ContextMessage(USER_ROLE, AccountName(f), f.msg)>>]

\* lines 457-471: the user message and the response pushed to story_part
AfterResponse(f, content) ==
    [f EXCEPT
        !.pc = "save_tapestry_fragment",
        !.response_content = content,
        !.story_part.context_messages = @ \o
            <<ContextMessage(USER_ROLE, AccountName(f), f.msg),
              ContextMessage(ASSISTANT_ROLE, AccountName(f), content)>>]

\* what prompt followed by get_content can give besides a content:
\* the request fails, the first choice has no content, there is no choice
PromptFailures == {"FailedPromptOpenAI", "FailedToGetContent", "NoChoice"}

\* PromptFailed that lets weave prompt once more after a first failure
PromptFailed_RetriesOnce(f, failure) ==
    IF failure = "NoChoice" THEN Fail(f, Panic)
    ELSE IF Len(f.calls) >= 2 /\ f.calls[Len(f.calls) - 1].outcome = failure
    THEN Fail(f, Err(failure))
    ELSE f

\* lines 503-528: the outcome of a failed prompt / get_content
PromptFailed(f, failure) ==
    IF failure = "NoChoice" THEN Fail(f, Panic) ELSE Fail(f, Err(failure))

(* ------------------------------ actions ------------------------------- *)

\* weave is called (lines 292-316)
Weave(p) ==
    /\ task[p].pc = "idle"
    /\ turns < MaxTurns
    /\ \E id \in Ids, sys \in Systems, ovr \in Overrides, m \in UserMsgs,
          acc \in Accounts(p) :
         task' = [task EXCEPT ![p] = ValidateOverride(
                    [IdleFrame EXCEPT
                        !.tapestry_id = id,
                        !.system = sys,
                        !.override_max_context_tokens = ovr,
                        !.msg = m,
                        !.account_id = acc])]
    /\ turns' = turns + 1
    /\ UNCHANGED <<overflow_checks, chest, version>>

\* GetTapestryFragment that fetches under one fixed key instead of the
\* key of its tapestry id (base_key ignoring the id)
GetTapestryFragment_SharedKey(p) ==
    LET f == task[p]
        called(outcome) ==
            [f EXCEPT !.calls = Append(@, FetchCall("A", outcome))]
        got == get_tapestry_fragment("A")
    IN /\ f.pc = "get_tapestry_fragment"
       /\ \/ task' = [task EXCEPT ![p] = Fail(called("Err"), Err("StorageError"))]
          \/ task' = [task EXCEPT ![p] = AfterFetch(
                        [called(IF got = None THEN "None" ELSE "Some") EXCEPT
                            !.loaded = IF got = None THEN DefaultFragment
                                       ELSE got[1],
                            !.seen = version[f.tapestry_id]])]
       /\ UNCHANGED <<overflow_checks, chest, version, turns>>

\* GetTapestryFragment with a failed fetch taken for an absent fragment
\* (the error dropped before unwrap_or_default)
GetTapestryFragment_SwallowsError(p) ==
    LET f == task[p]
        called(outcome) ==
            [f EXCEPT !.calls = Append(@, FetchCall(f.tapestry_id, outcome))]
        got == get_tapestry_fragment(f.tapestry_id)
    IN /\ f.pc = "get_tapestry_fragment"
       /\ \/ task' = [task EXCEPT ![p] = AfterFetch(
                        [called("Err") EXCEPT
                            !.loaded = DefaultFragment,
                            !.seen = version[f.tapestry_id]])]
          \/ task' = [task EXCEPT ![p] = AfterFetch(
                        [called(IF got = None THEN "None" ELSE "Some") EXCEPT
                            !.loaded = IF got = None THEN DefaultFragment
                                       ELSE got[1],
                            !.seen = version[f.tapestry_id]])]
       /\ UNCHANGED <<overflow_checks, chest, version, turns>>

\* the fetch returns (lines 318-321), and weave runs to its next await
GetTapestryFragment(p) ==
    LET f == task[p]
        called(outcome) ==
            [f EXCEPT !.calls = Append(@, FetchCall(f.tapestry_id, outcome))]
        got == get_tapestry_fragment(f.tapestry_id)
    IN /\ f.pc = "get_tapestry_fragment"
       /\ \/ task' = [task EXCEPT ![p] = Fail(called("Err"), Err("StorageError"))]
          \/ task' = [task EXCEPT ![p] = AfterFetch(
                        [called(IF got = None THEN "None" ELSE "Some") EXCEPT
                            !.loaded = IF got = None THEN DefaultFragment
                                       ELSE got[1],
                            !.seen = version[f.tapestry_id]])]
       /\ UNCHANGED <<overflow_checks, chest, version, turns>>

\* PromptSummary that, when the summary prompt returns no content, goes on
\* to the response prompt with an empty summary
PromptSummary_GoesOnWithoutContent(p) ==
    LET f == task[p]
        called(outcome) ==
            [f EXCEPT !.calls = Append(@,
                PromptCall(f.tapestry_id, f.request_messages, f.tokens_left,
                           outcome))]
    IN /\ f.pc = "prompt_summary"
       /\ \/ \E failure \in PromptFailures :
               task' = [task EXCEPT ![p] =
                   IF failure = "FailedToGetContent"
                   THEN AfterSummary(called(failure), NoText)
                   ELSE PromptFailed(called(failure), failure)]
          \/ \E s \in Summaries :
               task' = [task EXCEPT ![p] = AfterSummary(called("Ok"), s)]
       /\ UNCHANGED <<overflow_checks, chest, version, turns>>

\* the summary prompt returns (lines 372-376)
PromptSummary(p) ==
    LET f == task[p]
        called(outcome) ==
            [f EXCEPT !.calls = Append(@,
                PromptCall(f.tapestry_id, f.request_messages, f.tokens_left,
                           outcome))]
    IN /\ f.pc = "prompt_summary"
       /\ \/ \E failure \in PromptFailures :
               task' = [task EXCEPT ![p] = PromptFailed(called(failure), failure)]
          \/ \E s \in Summaries :
               task' = [task EXCEPT ![p] = AfterSummary(called("Ok"), s)]
       /\ UNCHANGED <<overflow_checks, chest, version, turns>>

\* PromptResponse with the fragment saved before the outcome of the prompt
\* is looked at: a failed generation leaves the fragment in the chest
PromptResponse_SavesFirst(p) ==
    LET f == task[p]
        called(outcome) ==
            [f EXCEPT !.calls = Append(@,
                PromptCall(f.tapestry_id, f.request_messages, f.max_tokens,
                           outcome))]
    IN /\ f.pc = "prompt_response"
       /\ \/ /\ \E failure \in PromptFailures :
                  task' = [task EXCEPT ![p] =
                              PromptFailed(called(failure), failure)]
             /\ chest' = save_tapestry_fragment(f.tapestry_id, f.story_part,
                                                f.summarized)
             /\ version' = [version EXCEPT ![f.tapestry_id] = @ + 1]
          \/ /\ \E r \in Replies :
                  task' = [task EXCEPT ![p] = AfterResponse(called("Ok"), r)]
             /\ UNCHANGED <<chest, version>>
       /\ UNCHANGED <<overflow_checks, turns>>

\* the response prompt returns (lines 442-471)
PromptResponse(p) ==
    LET f == task[p]
        called(outcome) ==
            [f EXCEPT !.calls = Append(@,
                PromptCall(f.tapestry_id, f.request_messages, f.max_tokens,
                           outcome))]
    IN /\ f.pc = "prompt_response"
       /\ \/ \E failure \in PromptFailures :
               task' = [task EXCEPT ![p] = PromptFailed(called(failure), failure)]
          \/ \E r \in Replies :
               task' = [task EXCEPT ![p] = AfterResponse(called("Ok"), r)]
       /\ UNCHANGED <<overflow_checks, chest, version, turns>>

\* SaveTapestryFragment with the result of the save dropped: the response
\* is returned whether or not the chest took the fragment
SaveTapestryFragment_IgnoresFailure(p) ==
    LET f == task[p]
        called(outcome) ==
            [f EXCEPT !.calls = Append(@,
                SaveCall(f.tapestry_id, f.story_part, f.summarized, outcome))]
    IN /\ f.pc = "save_tapestry_fragment"
       /\ \/ /\ task' = [task EXCEPT ![p] =
                            Fail(called("Err"), Ok(f.response_content))]
             /\ UNCHANGED <<chest, version>>
          \/ /\ chest' = save_tapestry_fragment(f.tapestry_id, f.story_part,
                                                f.summarized)
             /\ version' = [version EXCEPT ![f.tapestry_id] = @ + 1]
             /\ task' = [task EXCEPT ![p] =
                            Fail(called("Ok"), Ok(f.response_content))]
       /\ UNCHANGED <<overflow_checks, turns>>

\* SaveTapestryFragment that, on a continuation, appends its two messages
\* to the fragment the chest holds at the time of the save instead of
\* writing the fragment it fetched
SaveTapestryFragment_AppendsToCurrent(p) ==
    LET f == task[p]
        current == get_tapestry_fragment(f.tapestry_id)
        n == Len(f.story_part.context_messages)
        merged ==
            IF f.summarized \/ current = None THEN f.story_part
            ELSE [current[1] EXCEPT !.context_messages = @ \o
                    <<f.story_part.context_messages[n - 1],
                      f.story_part.context_messages[n]>>]
        called(outcome) ==
            [f EXCEPT !.calls = Append(@,
                SaveCall(f.tapestry_id, merged, f.summarized, outcome))]
    IN /\ f.pc = "save_tapestry_fragment"
       /\ \/ /\ task' = [task EXCEPT ![p] =
                            Fail(called("Err"), Err("StorageError"))]
             /\ UNCHANGED <<chest, version>>
          \/ /\ chest' = save_tapestry_fragment(f.tapestry_id, merged,
                                                f.summarized)
             /\ version' = [version EXCEPT ![f.tapestry_id] = @ + 1]
             /\ task' = [task EXCEPT ![p] =
                            Fail(called("Ok"), Ok(f.response_content))]
       /\ UNCHANGED <<overflow_checks, turns>>

\* the save returns (lines 475-484)
SaveTapestryFragment(p) ==
    LET f == task[p]
        called(outcome) ==
            [f EXCEPT !.calls = Append(@,
                SaveCall(f.tapestry_id, f.story_part, f.summarized, outcome))]
    IN /\ f.pc = "save_tapestry_fragment"
       /\ \/ /\ task' = [task EXCEPT ![p] =
                            Fail(called("Err"), Err("StorageError"))]
             /\ UNCHANGED <<chest, version>>
          \/ /\ chest' = save_tapestry_fragment(f.tapestry_id, f.story_part,
                                                f.summarized)
             /\ version' = [version EXCEPT ![f.tapestry_id] = @ + 1]
             /\ task' = [task EXCEPT ![p] =
                            Fail(called("Ok"), Ok(f.response_content))]
       /\ UNCHANGED <<overflow_checks, turns>>

\* the caller has taken the result; the task may call weave again
Return(p) ==
    /\ task[p].pc = "done"
    /\ task' = [task EXCEPT ![p] = IdleFrame]
    /\ UNCHANGED <<overflow_checks, chest, version, turns>>

Next ==
    \E p \in Procs :
        \/ Weave(p)
        \/ GetTapestryFragment(p)
        \/ PromptSummary(p)
        \/ PromptResponse(p)
        \/ SaveTapestryFragment(p)
        \/ Return(p)

Spec == Init /\ [][Next]_vars

(* ------------------------- reading the state -------------------------- *)

Done(p) == task[p].pc = "done"

Succeeded(p) == Done(p) /\ task[p].result.kind = "Ok"

\* a prompt call is the summary prompt when its request ends with the
\* "Generate a summary" directive, the response prompt otherwise
IsSummaryPrompt(c) ==
    /\ c.op = "prompt"
    /\ c.messages[Len(c.messages)].fmt = GenSummaryFmt

IsResponsePrompt(c) ==
    /\ c.op = "prompt"
    /\ c.messages[Len(c.messages)].fmt = RespondFmt

IsSave(c) == c.op = "save_tapestry_fragment"

IsFetch(c) == c.op = "get_tapestry_fragment"

CallsOf(p) == task[p].calls

Made(p, Is(_)) == \E i \in 1..Len(CallsOf(p)) : Is(CallsOf(p)[i])

\* the tokens the messages of a fragment really hold
HistoryTokens(fragment) == SumTokens(fragment.context_messages)

\* the fragment's own count agrees with its messages
InSync(fragment) == fragment.context_tokens = HistoryTokens(fragment)

(* ------------------------------ claims -------------------------------- *)

\* C1 (as claimed): in a build with overflow checks, every successful turn
\* in which the tokens of the loaded fragment's message history plus
\* count_tokens(user_message) reach the reservation ran the summary prompt,
\* so no turn generates on a history at or past the reservation without
\* compaction.
C1_CompactsWhenHistoryReachesReservation ==
    \A p \in Procs :
        /\ overflow_checks
        /\ Succeeded(p)
        /\ HistoryTokens(task[p].loaded) + count_tokens(task[p].msg)
              >= task[p].tokens_available
        => Made(p, IsSummaryPrompt)

\* C2 (as claimed): every fragment weave holds or persists has
\* context_tokens equal to the sum of count_tokens over its messages.
C2_TotalTokensIsSumOfMessages ==
    /\ \A p \in Procs :
          task[p].pc # "idle" =>
              InSync(task[p].loaded) /\ InSync(task[p].story_part)
    /\ \A id \in Ids : \A i \in 1..Len(chest[id]) : InSync(chest[id][i])

\* the two messages a turn appends to the fragment it saves
UserMessageOf(p) ==
    ContextMessage(USER_ROLE, AccountName(task[p]), task[p].msg)

AssistantMessageOf(p) ==
    ContextMessage(ASSISTANT_ROLE, AccountName(task[p]), task[p].response_content)

\* the save calls of the turn
SavesOf(p) == SelectSeq(CallsOf(p), IsSave)

\* C3 (as claimed): a successful turn with
\* reservation <= fragment.total_tokens + count_tokens(user_message) ran the
\* summary prompt and saved, as a new fragment, exactly the system
\* instruction, the summary, the user message and the reply, in this order.
C3_CompactionTurnSavesFourMessages ==
    \A p \in Procs :
        /\ Succeeded(p)
        /\ task[p].tokens_available
              <= task[p].loaded.context_tokens + count_tokens(task[p].msg)
        => /\ Made(p, IsSummaryPrompt)
           /\ Len(SavesOf(p)) = 1
           /\ SavesOf(p)[1].new = TRUE
           /\ LET saved == SavesOf(p)[1].fragment.context_messages
              IN /\ Len(saved) = 4
                 /\ saved[1] = ContextMessage(SYSTEM_ROLE, "", task[p].system)
                 /\ saved[2].role = SYSTEM_ROLE
                 /\ saved[3] = UserMessageOf(p)
                 /\ saved[4] = AssistantMessageOf(p)

\* C4: whenever a turn that made no summary prompt saves, the save is a
\* continuation (new = FALSE) and the saved messages are the loaded
\* fragment's messages, unchanged and in order, followed by the user
\* message and then the assistant reply.
C4_ContinuationAppendsPair ==
    \A p \in Procs :
        \A i \in 1..Len(CallsOf(p)) :
            IsSave(CallsOf(p)[i]) /\ ~Made(p, IsSummaryPrompt)
            => /\ CallsOf(p)[i].new = FALSE
               /\ CallsOf(p)[i].fragment.context_messages =
                     task[p].loaded.context_messages
                        \o <<UserMessageOf(p), AssistantMessageOf(p)>>

\* C4 witness: a successful turn without compaction on a fragment that
\* already held messages.
C4_Witness ==
    \E p \in Procs :
        /\ Succeeded(p)
        /\ ~Made(p, IsSummaryPrompt)
        /\ Len(task[p].loaded.context_messages) >= 2
        /\ Len(SavesOf(p)) = 1

\* the response budget of step 6, as a mathematical integer
BudgetOf(f) ==
    f.tokens_available - f.story_part.context_tokens - count_tokens(f.msg)

\* C5 (as claimed): no turn gets past the budget computation with
\* reservation - fragment.total_tokens - count_tokens(user_message) <= 0:
\* with such a budget it fails with BudgetExhausted, makes no response
\* prompt and no save.
C5_NonPositiveBudgetFails ==
    \A p \in Procs :
        \/ task[p].pc \in {"prompt_response", "save_tapestry_fragment"}
        \/ Made(p, IsResponsePrompt)
        \/ Made(p, IsSave)
        => BudgetOf(task[p]) > 0

\* an override above the model's maximum
OverrideTooLarge(f) ==
    /\ f.override_max_context_tokens # None
    /\ f.override_max_context_tokens[1] > max_context_tokens

\* C6 (as claimed): a turn whose override exceeds the model's maximum ends
\* with BadConfig and without any port call; no other turn is rejected
\* that way.
C6_OverrideAboveMaxIsBadConfig ==
    \A p \in Procs :
        /\ Done(p) /\ OverrideTooLarge(task[p])
           => task[p].result.kind = "BadConfig" /\ CallsOf(p) = <<>>
        /\ Done(p) /\ ~OverrideTooLarge(task[p])
           => task[p].result.kind \notin {"BadConfig", "BadOpenAIRole"}

\* C6, the part the code keeps: a turn whose override exceeds the model's
\* maximum ends with an error before any port call, and an override up to
\* the maximum is let through to the fetch.
C6_RejectedBeforeAnyPortCall ==
    \A p \in Procs :
        /\ task[p].pc # "idle" /\ OverrideTooLarge(task[p])
           => Done(p) /\ task[p].result.kind = "BadOpenAIRole" /\ CallsOf(p) = <<>>
        /\ Done(p) /\ ~OverrideTooLarge(task[p])
           => task[p].result.kind # "BadOpenAIRole" /\ Len(CallsOf(p)) >= 1

\* the error kinds of the Completion Port: the request failed, or the
\* response carried no content
CompletionErrors == {"FailedPromptOpenAI", "FailedToGetContent"}

LastCall(p) == CallsOf(p)[Len(CallsOf(p))]

C8_FetchFailureStopsTurn ==
    \A p \in Procs :
        \A i \in 1..Len(CallsOf(p)) :
            IsFetch(CallsOf(p)[i]) =>
                /\ CallsOf(p)[i].outcome = "Err"
                   => /\ Done(p)
                      /\ task[p].result.kind = "StorageError"
                      /\ Len(CallsOf(p)) = 1
                /\ CallsOf(p)[i].outcome = "None"
                   => /\ task[p].loaded = DefaultFragment
                      /\ Len(CallsOf(p)) = 1
                         => task[p].pc \in {"prompt_summary", "prompt_response"}

\* C8 witness: one task's fetch failed, and another task, whose fetch found
\* no fragment, has completed its turn from the empty fragment.
C8_Witness ==
    \E p, q \in Procs :
        /\ CallsOf(p) # <<>> /\ CallsOf(p)[1].outcome = "Err" /\ Done(p)
        /\ CallsOf(q) # <<>> /\ CallsOf(q)[1].outcome = "None" /\ Succeeded(q)

\* C9: weave returns Ok only with the response text and only when its last
\* port call is a save that succeeded; a failed save ends the turn with the
\* storage error and no text.
C9_OkOnlyAfterSuccessfulSave ==
    \A p \in Procs :
        /\ task[p].result.kind = "Ok"
           => /\ CallsOf(p) # <<>>
              /\ IsSave(LastCall(p))
              /\ LastCall(p).outcome = "Ok"
              /\ task[p].result.text = task[p].response_content
        /\ \A i \in 1..Len(CallsOf(p)) :
              IsSave(CallsOf(p)[i]) /\ CallsOf(p)[i].outcome = "Err"
              => /\ Done(p)
                 /\ task[p].result = Err("StorageError")

\* C9 witness: the response prompt succeeded and the save failed.
C9_Witness ==
    \E p \in Procs :
        /\ Done(p)
        /\ Made(p, IsSave)
        /\ LastCall(p).outcome = "Err"
        /\ task[p].response_content \in Replies

\* two turns on one tapestry id that fetched at the same chest version,
\* both returned Ok, and whose saves are the only two since
Raced(p, q) ==
    /\ p # q
    /\ Succeeded(p) /\ Succeeded(q)
    /\ task[p].tapestry_id = task[q].tapestry_id
    /\ task[p].seen = task[q].seen
    /\ version[task[p].tapestry_id] = task[p].seen + 2

\* the latest fragment the chest holds for the id of task p
Latest(p) ==
    chest[task[p].tapestry_id][Len(chest[task[p].tapestry_id])]

\* the messages the turn of task p started its fragment from
BaseOf(p) ==
    IF task[p].summarized
    THEN <<task[p].story_part.context_messages[1],
           task[p].story_part.context_messages[2]>>
    ELSE task[p].loaded.context_messages

\* C10: when two turns on one id have both fetched before either saved and
\* both returned Ok, the chest's latest fragment is the fragment of one of
\* them alone: that turn's base messages and its own user/assistant pair,
\* without the pair of the other turn.
C10_LaterSaveWins ==
    \A p, q \in Procs :
        Raced(p, q) =>
            \E w \in {p, q} :
                /\ Latest(p) = SavesOf(w)[1].fragment
                /\ Latest(p).context_messages =
                      BaseOf(w) \o <<UserMessageOf(w), AssistantMessageOf(w)>>

\* C10 witness: two turns raced on a continuation, and the stored fragment
\* holds the pair of task q and not the user message of task p, although
\* task p returned Ok.
C10_Witness ==
    \E p, q \in Procs :
        /\ Raced(p, q)
        /\ ~task[p].summarized /\ ~task[q].summarized
        /\ Latest(p) = task[q].story_part
        /\ \A i \in 1..Len(Latest(p).context_messages) :
              Latest(p).context_messages[i] # UserMessageOf(p)

\* number of calls of the turn of task p that satisfy Is
Count(p, Is(_)) == Len(SelectSeq(CallsOf(p), Is))

\* the chest after task p saves its fragment
SavedBy(p) ==
    save_tapestry_fragment(task[p].tapestry_id, task[p].story_part,
                           task[p].summarized)

\* C11: a turn touches only the fragment keyed by its own tapestry id:
\* every port call of a turn carries its own id, its fetch reads the latest
\* fragment of its own id, and the stored fragments of an id change only
\* in the save step of a turn on that id, to that turn's fragment; so under
\* every interleaving with a turn on another id a turn loads and persists
\* what it would alone and leaves the other id's fragment unchanged.
C11_TurnsOnDifferentIdsDoNotInterfere ==
    /\ [](\A p \in Procs :
            \A i \in 1..Len(CallsOf(p)) :
                CallsOf(p)[i].id = task[p].tapestry_id)
    /\ [][\A p \in Procs :
            /\ task[p].pc = "get_tapestry_fragment"
            /\ task'[p].calls # <<>>
            /\ task'[p].calls[1].outcome # "Err"
            => task'[p].loaded =
                  IF chest[task[p].tapestry_id] = <<>> THEN DefaultFragment
                  ELSE Latest(p)]_vars
    /\ [][\A id \in Ids :
            chest'[id] # chest[id]
            => \E p \in Procs :
                  /\ task[p].pc = "save_tapestry_fragment"
                  /\ task[p].tapestry_id = id
                  /\ task'[p].result.kind = "Ok"
                  /\ chest' = SavedBy(p)]_vars

\* C11 witness: two tasks have completed turns on different ids, and each
\* id's latest stored fragment is the fragment of the turn on that id.
C11_Witness ==
    \E p, q \in Procs :
        /\ Succeeded(p) /\ Succeeded(q)
        /\ task[p].tapestry_id # task[q].tapestry_id
        /\ Latest(p) = task[p].story_part
        /\ Latest(q) = task[q].story_part
        /\ Latest(p) # Latest(q)

\* what a port returns when it fails
PortFailures == {"Err"} \cup CompletionErrors

FUNCTION_ROLE == "function"

\* a fragment as a compaction turn under a larger window leaves it, its
\* summary 5 tokens long, the summary message carrying an account id
SeedCompacted ==
    TapestryFragment(5,
        <<ContextMessage(SYSTEM_ROLE, "", Text("be brief", 3)),
          ContextMessage(SYSTEM_ROLE, "ops", Text("long recap", 5)),
          ContextMessage(USER_ROLE, "bob", Text("hello", 2)),
          ContextMessage(ASSISTANT_ROLE, "bob", Text("hi", 1))>>)

\* a fragment holding a function message
SeedFunction ==
    TapestryFragment(2,
        <<ContextMessage(FUNCTION_ROLE, "", Text("lookup result", 2))>>)

\* a fragment holding a message whose role is none of the four
SeedUnknownRole ==
    TapestryFragment(2,
        <<ContextMessage("tool", "", Text("tool output", 2))>>)

Seeds == {SeedCompacted, SeedFunction, SeedUnknownRole}

\* the chest already holds, for id "A", a fragment weave did not write in
\* this behaviour
InitForeign ==
    /\ overflow_checks \in BOOLEAN
    /\ \E seed \in Seeds :
          chest = [id \in Ids |-> IF id = "A" THEN <<seed>> ELSE <<>>]
    /\ version = [id \in Ids |-> 0]
    /\ turns = 0
    /\ task = [p \in Procs |-> IdleFrame]

SpecForeign == InitForeign /\ [][Next]_vars

\* the closed enumeration of roles
ClosedRoles == {SYSTEM_ROLE, USER_ROLE, ASSISTANT_ROLE, FUNCTION_ROLE}

\* the turn of task p has fetched a fragment
Fetched(p) ==
    /\ CallsOf(p) # <<>>
    /\ CallsOf(p)[1].outcome \in {"None", "Some"}

\* the author a request message must carry for a stored message
AuthorFor(m) ==
    IF m.role \in {USER_ROLE, ASSISTANT_ROLE} THEN m.account_id ELSE ""

\* C13 (as claimed): a loaded message with a role outside
\* {system, user, assistant, function} makes weave return an InvalidRole
\* error, not abort; a loaded fragment with only the four valid roles is
\* assembled without a role failure, and in every prompt the request
\* message of a stored message carries the account id for user and
\* assistant messages and the empty name for system and function messages.
C13_InvalidRoleIsRecoverable ==
    \A p \in Procs :
        Fetched(p) =>
            LET stored == task[p].loaded.context_messages
            IN IF \E i \in 1..Len(stored) : stored[i].role \notin ClosedRoles
               THEN Done(p) /\ task[p].result.kind = "InvalidRole"
               ELSE /\ task[p].result # PanicBadRole
                    /\ \A c \in 1..Len(CallsOf(p)) :
                          /\ CallsOf(p)[c].op = "prompt"
                          /\ Len(CallsOf(p)[c].messages) > Len(stored)
                          /\ ~task[p].summarized \/ IsSummaryPrompt(CallsOf(p)[c])
                          => \A i \in 1..Len(stored) :
                                CallsOf(p)[c].messages[i + 1].name
                                   = AuthorFor(stored[i])

\* C13, the part the code keeps: a loaded fragment whose roles are all among
\* system, user and assistant is assembled without a role failure, with the
\* account id as the name of user and assistant messages and the empty
\* name for system messages.
C13_ThreeRolesAssemble ==
    \A p \in Procs :
        Fetched(p) =>
            LET stored == task[p].loaded.context_messages
            IN (\A i \in 1..Len(stored) : RoleKnown(stored[i].role))
               => /\ task[p].result # PanicBadRole
                  /\ \A c \in 1..Len(CallsOf(p)) :
                        /\ CallsOf(p)[c].op = "prompt"
                        /\ ~task[p].summarized \/ IsSummaryPrompt(CallsOf(p)[c])
                        => \A i \in 1..Len(stored) :
                              CallsOf(p)[c].messages[i + 1].name
                                 = AuthorFor(stored[i])

\* the window of a turn: the override when supplied, the model's maximum
\* otherwise
WindowOf(f) ==
    IF f.override_max_context_tokens = None THEN max_context_tokens
    ELSE f.override_max_context_tokens[1]

\* r is the integer part of a tenth of window
IsFloorOfTenth(r, window) == r * 10 <= window /\ window < (r + 1) * 10

C15_GenerationCeilingIsBudget ==
    \A p \in Procs :
        \A i \in 1..Len(CallsOf(p)) :
            IsResponsePrompt(CallsOf(p)[i])
               => CallsOf(p)[i].max_tokens = BudgetOf(task[p])

\* C15, the part the code keeps: the ceiling is the 16-bit value of that
\* difference, hence the difference itself whenever it is not negative
\* (409 - 0 - 2 = 407 for a 2-token message on a new id).
C15_CeilingIsBudgetIn16Bits ==
    \A p \in Procs :
        \A i \in 1..Len(CallsOf(p)) :
            IsResponsePrompt(CallsOf(p)[i])
               => /\ CallsOf(p)[i].max_tokens = Wrap(BudgetOf(task[p]))
                  /\ BudgetOf(task[p]) >= 0
                        => CallsOf(p)[i].max_tokens = BudgetOf(task[p])
                  /\ /\ task[p].tokens_available = 409
                     /\ task[p].story_part.context_tokens = 0
                     /\ count_tokens(task[p].msg) = 2
                     => CallsOf(p)[i].max_tokens = 407

\* total_tokens of the fragment in use before the append: the compaction
\* result's when the turn compacted, the loaded fragment's otherwise
TotalBeforeAppend(f) ==
    IF f.summarized THEN count_tokens(f.summary_response_content)
    ELSE f.loaded.context_tokens

\* C16 (as claimed): the fragment a successful turn persisted has
\* total_tokens = total_tokens of the fragment in use before the append
\* + count_tokens(user_message) + count_tokens(reply).
C16_PersistedTotalAddsBothMessages ==
    \A p \in Procs :
        Succeeded(p) =>
            SavesOf(p)[1].fragment.context_tokens
               = TotalBeforeAppend(task[p]) + count_tokens(task[p].msg)
                    + count_tokens(task[p].response_content)

\* C16, what the code does: the persisted total_tokens is the total before
\* the append, unchanged.
C16_PersistedTotalIsTotalBeforeAppend ==
    \A p \in Procs :
        Succeeded(p) =>
            SavesOf(p)[1].fragment.context_tokens = TotalBeforeAppend(task[p])

\* the summary prompts of turns whose loaded total_tokens does not exceed
\* the reservation
SummaryPromptsWithinReservation ==
    {<<p, i>> \in Procs \X (1..4) :
        /\ i <= Len(CallsOf(p))
        /\ IsSummaryPrompt(CallsOf(p)[i])
        /\ task[p].loaded.context_tokens <= task[p].tokens_available}

\* the directive of a prompt call: the last message of its request
DirectiveOf(c) == c.messages[Len(c.messages)]

LoadedAboveReservation(p) ==
    /\ Fetched(p)
    /\ \A i \in 1..Len(task[p].loaded.context_messages) :
          RoleKnown(task[p].loaded.context_messages[i].role)
    /\ task[p].loaded.context_tokens > task[p].tokens_available

\* C18 (as claimed): when the loaded fragment's total_tokens is greater
\* than the reservation, the turn goes on to the summary prompt with
\* tokens_for_summary = 0: the subtraction neither ends the turn by a
\* panic nor wraps to a large 16-bit value.
C18_SummaryBudgetClampedToZero ==
    \A p \in Procs :
        LoadedAboveReservation(p) =>
            /\ task[p].pc = "prompt_summary" \/ Made(p, IsSummaryPrompt)
            /\ task[p].tokens_left = 0
            /\ \A i \in 1..Len(CallsOf(p)) :
                  IsSummaryPrompt(CallsOf(p)[i])
                     => CallsOf(p)[i].max_tokens = 0

\* C18, what the code does: with overflow checks the turn ends by a panic
\* before any prompt; without them the summary prompt is made with the
\* wrapped difference, 65536 + reservation - total_tokens.
C18_SummaryBudgetPanicsOrWraps ==
    \A p \in Procs :
        LoadedAboveReservation(p) =>
            IF overflow_checks
            THEN /\ Done(p)
                 /\ task[p].result = Panic
                 /\ Len(CallsOf(p)) = 1
            ELSE /\ task[p].tokens_left
                       = TokensModulus + task[p].tokens_available
                            - task[p].loaded.context_tokens
                 /\ \A i \in 1..Len(CallsOf(p)) :
                       IsSummaryPrompt(CallsOf(p)[i])
                          => CallsOf(p)[i].max_tokens = task[p].tokens_left

\* a stored message sent with its content unchanged
SentAsStored(m) == RequestMessage(m.role, AuthorFor(m), PlainFmt, m.content, 0)

\* the fragment in use before the append: the two-message compaction
\* result when the turn compacted, the loaded fragment otherwise
MessagesBeforeAppend(f) ==
    IF f.summarized
    THEN <<ContextMessage(SYSTEM_ROLE, "", f.system),
           ContextMessage(SYSTEM_ROLE, "", f.summary_response_content)>>
    ELSE f.loaded.context_messages

\* the head and the tail every response request has: the system
\* instruction first; last the user message with the supplied author and
\* the directive asking for 0.75 * max_tokens words
HeadOf(f) == <<RequestMessage(SYSTEM_ROLE, "", PlainFmt, f.system, 0)>>

TailOf(f, c) ==
    <<RequestMessage(USER_ROLE, AccountName(f), PlainFmt, f.msg, 0),
      RequestMessage(SYSTEM_ROLE, "", RespondFmt, NoText, 3 * c.max_tokens)>>

\* C19 (as claimed): the response request is the system instruction, then
\* every message of the fragment in use (the loaded one, or the
\* two-message compaction result) in stored order with unchanged content,
\* then the user message, then the directive.
C19_RequestResendsCurrentFragment ==
    \A p \in Procs :
        \A i \in 1..Len(CallsOf(p)) :
            IsResponsePrompt(CallsOf(p)[i]) =>
                LET current == MessagesBeforeAppend(task[p])
                IN CallsOf(p)[i].messages =
                      HeadOf(task[p])
                         \o [k \in 1..Len(current) |-> SentAsStored(current[k])]
                         \o TailOf(task[p], CallsOf(p)[i])

\* C19 (amended): the response request is, in order: the system
\* instruction; then, in a turn without compaction, every message of the
\* loaded fragment in stored order with unchanged content, and in a
\* compaction turn one system message holding the summary text behind the
\* prefix "\n\"\"\"\n " (the system instruction is not sent a second time);
\* then the user message with role user and the supplied author; then one
\* system directive asking for max_output_tokens * 0.75 words.
C19_RequestOrder ==
    \A p \in Procs :
        \A i \in 1..Len(CallsOf(p)) :
            IsResponsePrompt(CallsOf(p)[i]) =>
                LET stored == task[p].loaded.context_messages
                    middle ==
                        IF task[p].summarized
                        THEN <<RequestMessage(SYSTEM_ROLE, "", SummaryFmt,
                                   task[p].summary_response_content, 0)>>
                        ELSE [k \in 1..Len(stored) |-> SentAsStored(stored[k])]
                IN CallsOf(p)[i].messages =
                      HeadOf(task[p]) \o middle \o TailOf(task[p], CallsOf(p)[i])

\* both shapes occur: a compaction turn's response request of 4 messages,
\* and a later turn's request resending the 4 stored messages of that
\* fragment between the instruction and the user message
C19_Witness ==
    \E p, q \in Procs :
        /\ task[p].summarized
        /\ \E i \in 1..Len(CallsOf(p)) :
              /\ IsResponsePrompt(CallsOf(p)[i])
              /\ Len(CallsOf(p)[i].messages) = 4
        /\ ~task[q].summarized
        /\ Len(task[q].loaded.context_messages) = 4
        /\ \E i \in 1..Len(CallsOf(q)) :
              /\ IsResponsePrompt(CallsOf(q)[i])
              /\ Len(CallsOf(q)[i].messages) = 7

\* the turn of task p has compacted and not yet appended: it is about to
\* prompt for the response
CompactedBeforeAppend(p) ==
    /\ task[p].pc = "prompt_response"
    /\ Made(p, IsSummaryPrompt)

CompactionRequired(f) ==
    f.tokens_available <= Wrap(f.loaded.context_tokens + count_tokens(f.msg))

\* C21: within one turn the port calls come in a fixed order. The fetch is
\* the first call and has returned a fragment (or none) before any prompt;
\* when the turn has to compact, the response prompt is the third call and
\* directly follows a summary prompt that succeeded, otherwise it is the
\* second call; a save is the last call and directly follows a response
\* prompt that returned a response; a successful turn ends with exactly one
\* save, which succeeded.
C21_PortCallsInFixedOrder ==
    \A p \in Procs :
        LET c == CallsOf(p)
        IN /\ \A i \in 1..Len(c) :
                /\ IsFetch(c[i]) <=> i = 1
                /\ c[i].op = "prompt" => c[1].outcome \in {"None", "Some"}
                /\ IsSummaryPrompt(c[i])
                      => i = 2 /\ CompactionRequired(task[p])
                /\ IsResponsePrompt(c[i])
                      => IF CompactionRequired(task[p])
                         THEN /\ i = 3
                              /\ IsSummaryPrompt(c[2])
                              /\ c[2].outcome = "Ok"
                         ELSE i = 2
                /\ IsSave(c[i])
                      => /\ i = Len(c)
                         /\ i > 1
                         /\ IsResponsePrompt(c[i - 1])
                         /\ c[i - 1].outcome = "Ok"
           /\ Succeeded(p)
                 => /\ Count(p, IsSave) = 1
                    /\ IsSave(c[Len(c)])
                    /\ c[Len(c)].outcome = "Ok"

\* a successful compaction turn: fetch, summary prompt, response prompt,
\* save, each returned successfully; and a successful turn without
\* compaction: fetch, response prompt, save
C21_Witness ==
    \E p, q \in Procs :
        /\ Succeeded(p)
        /\ Len(CallsOf(p)) = 4
        /\ IsSummaryPrompt(CallsOf(p)[2])
        /\ IsResponsePrompt(CallsOf(p)[3])
        /\ Succeeded(q)
        /\ Len(CallsOf(q)) = 3
        /\ IsResponsePrompt(CallsOf(q)[2])

\* the turn of task p took the no-compaction path and got past the budget
\* computation of line 413, the sum of line 355 not overflowing 16 bits
OnNoCompactionPath(p) ==
    /\ Fetched(p)
    /\ ~Made(p, IsSummaryPrompt)
    /\ task[p].pc = "prompt_response" \/ Made(p, IsResponsePrompt)
    /\ ~Overflows(task[p].loaded.context_tokens + count_tokens(task[p].msg))

\* C22: on the no-compaction path, with the sum fragment.total_tokens +
\* count_tokens(user_message) not overflowing, the reservation is greater
\* than that sum and the response budget reservation -
\* fragment.total_tokens - count_tokens(user_message) is at least 1: no
\* step of the 16-bit subtraction underflows, the ceiling of the response
\* prompt is that budget and never 0; and no turn with such a sum below
\* the reservation ends by a panic at the budget computation.
C22_NoCompactionBudgetIsPositive ==
    \A p \in Procs :
        LET f == task[p]
            r == f.tokens_available
            total == f.loaded.context_tokens
            count == count_tokens(f.msg)
        IN /\ OnNoCompactionPath(p)
              => /\ r > total + count
                 /\ ~Overflows(r - total)
                 /\ ~Overflows(r - total - count)
                 /\ r - total - count >= 1
                 /\ f.max_tokens = r - total - count
                 /\ \A i \in 1..Len(f.calls) :
                       IsResponsePrompt(f.calls[i])
                          => /\ f.calls[i].max_tokens = r - total - count
                             /\ f.calls[i].max_tokens # 0
           /\ /\ Fetched(p)
              /\ \A i \in 1..Len(f.loaded.context_messages) :
                    RoleKnown(f.loaded.context_messages[i].role)
              /\ ~Overflows(total + count)
              /\ r > total + count
              => OnNoCompactionPath(p)

\* the smallest budget: reservation 3, empty fragment, 2-token message,
\* response prompt made with ceiling 1
C22_Witness ==
    \E p \in Procs :
        /\ OnNoCompactionPath(p)
        /\ task[p].tokens_available = 3
        /\ count_tokens(task[p].msg) = 2
        /\ Made(p, IsResponsePrompt)
        /\ task[p].max_tokens = 1

====
